---------------------------- MODULE Spec2Model ----------------------------
(***************************************************************************)
(* The input mutation engine of src/src/mutator.rs: the xorshift PRNG, the *)
(* twelve mutation operators, the magic transformer and the scheduler      *)
(* mutate_input.                                                           *)
(*                                                                         *)
(* A 64-bit word (usize / u64 on x86_64) is the set of the positions of    *)
(* its one bits, a subset of 0..63: the model checker's integers are       *)
(* narrower than 64 bits.  A byte is an integer in 0..255 and a buffer     *)
(* (Vec<u8>, &[u8]) is a sequence of bytes; Rust's index i is position     *)
(* i + 1 of the sequence.                                                  *)
(***************************************************************************)
EXTENDS Integers, Sequences, FiniteSets, TLC

VARIABLES
    rng,             \* Mutator.rng
    input,           \* Mutator.input
    max_size,        \* Mutator.max_size
    last_mutation,   \* Mutator.last_mutation
    corpus,          \* the corpus borrowed by the latest mutate_input call
    pc,              \* position of the owner of the Mutator
    rounds,          \* mutate_input's local `rounds`
    round,           \* rounds of the loop of mutate_input already executed
    overflow_checks, \* build profile: integer overflow panics (debug) or wraps
    calls,           \* number of mutate_input calls started (of draws made,
                     \* where mutate_magic is called on its own)
    last_call,       \* history: the latest call, its argument and, for
                     \* mutate_input, its local `gen`; for mutate_magic, the
                     \* bytes returned
    before,          \* history: the buffer at the entry of the latest round
    twin             \* a second Mutator, constructed independently

vars == <<rng, input, max_size, last_mutation, corpus, pc, rounds, round,
          overflow_checks, calls, last_call, before, twin>>

-----------------------------------------------------------------------------
(* Program constants *)

MAX_STACK == 6
LONGSHOT_MUTATION_RATE == 5
GEN_SCRATCH_RATE == 5
MAX_BYTE_CORRUPTION == 64
MAX_BLOCK_CORRUPTION == 512
MAX_BIT_CORRUPTION == 64

(* Bounds of the model *)

\* a buffer of more than MaxAlloc bytes cannot be allocated
MaxAlloc == 1024

\* seeds passed to new are 0..MaxSeed
MaxSeed == 11

\* the largest max_size passed to new
MaxSize == 8

\* mutate_input calls made on one Mutator
MaxCalls == 2

\* the operator harness starts from the PRNG states 0..MaxOpSeed
MaxOpSeed == 31

\* the mutate_magic harness starts from the PRNG states 0..MaxMagicSeed
MaxMagicSeed == 127

\* draws made from one PRNG state before mutate_magic is called
MaxMagicDraws == 12

-----------------------------------------------------------------------------
(* 64-bit words *)

Word == 0..63

Zero == {}

AllOnes == Word

Xor(a, b) == (a \ b) \cup (b \ a)

\* a << k and a >> k on 64 bits: the bits shifted out are discarded
Shl(a, k) == {i + k : i \in {j \in a : j + k <= 63}}

Shr(a, k) == {i - k : i \in {j \in a : j >= k}}

RECURSIVE Pow2(_)
Pow2(n) == IF n = 0 THEN 1 ELSE 2 * Pow2(n - 1)

\* the word of a small natural number
RECURSIVE BitsOf(_, _)
BitsOf(n, i) ==
    IF n = 0 THEN {}
    ELSE (IF n % 2 = 1 THEN {i} ELSE {}) \cup BitsOf(n \div 2, i + 1)

FromNat(n) == BitsOf(n, 0)

\* byte j of a word (bits 8j .. 8j+7), as a number
RECURSIVE ByteValue(_, _, _)
ByteValue(w, j, i) ==
    IF i = 8 THEN 0
    ELSE (IF 8 * j + i \in w THEN Pow2(i) ELSE 0) + ByteValue(w, j, i + 1)

\* w % n for a word w and 0 < n <= 2^22, most significant byte first
RECURSIVE RemFrom(_, _, _, _)
RemFrom(w, n, j, acc) ==
    IF j < 0 THEN acc
    ELSE RemFrom(w, n, j - 1, (256 * acc + ByteValue(w, j, 0)) % n)

Rem(w, n) == RemFrom(w, n, 7, 0)

Min(a, b) == IF a <= b THEN a ELSE b

\* a - b on usize.  A negative result d stands for the wrapped value
\* 2^64 + d, which a build without overflow checks produces.
usub(a, b) == a - b

\* std::cmp::min(a, b) where a may be a wrapped (huge) value
umin(a, b) == IF a < 0 THEN b ELSE Min(a, b)

-----------------------------------------------------------------------------
(* PRNG *)

\* MUTANT of rand: the first step assigns the shifted value instead of
\* xoring it in
rand_assign_shift(s) ==
    LET s1 == Shl(s, 13)
        s2 == Xor(s1, Shr(s1, 17))
        s3 == Xor(s2, Shl(s2, 43))
    IN  [val |-> s, rng |-> s3]

\* Mutator::rand: returns the saved state, advances the state
rand(s) ==
    LET s1 == Xor(s, Shl(s, 13))
        s2 == Xor(s1, Shr(s1, 17))
        s3 == Xor(s2, Shl(s2, 43))
    IN  [val |-> s, rng |-> s3]


-----------------------------------------------------------------------------
(* Buffers *)

\* Vec::insert(idx, byte), for idx <= len
Insert(s, idx, byte) ==
    SubSeq(s, 1, idx) \o <<byte>> \o SubSeq(s, idx + 1, Len(s))

\* Vec::remove(idx), for idx < len
Remove(s, idx) == SubSeq(s, 1, idx) \o SubSeq(s, idx + 2, Len(s))

\* s[idx .. idx + Len(block)] = block, for idx + Len(block) <= len
Overwrite(s, idx, block) ==
    [i \in 1..Len(s) |->
        IF i > idx /\ i <= idx + Len(block) THEN block[i - idx] ELSE s[i]]

Zeros(n) == [i \in 1..n |-> 0]

\* Vec::resize(new_len, 0) and, for new_len <= len, Vec::truncate(new_len)
Resize(s, new_len) ==
    IF new_len <= Len(s) THEN SubSeq(s, 1, new_len)
    ELSE s \o Zeros(new_len - Len(s))

\* byte ^ (1 << bit_index)
FlipBit(byte, bit_index) ==
    IF (byte \div Pow2(bit_index)) % 2 = 1
    THEN byte - Pow2(bit_index)
    ELSE byte + Pow2(bit_index)

\* A Mutator in the middle of an operation: its fields and whether the
\* operation has panicked (the thread unwinds and nothing is returned)
Panic(m) == [m EXCEPT !.panic = TRUE]

-----------------------------------------------------------------------------
(* Byte operators *)

RECURSIVE byte_insert_loop(_, _)
byte_insert_loop(m, n) ==
    IF n = 0 THEN m
    ELSE IF Len(m.input) = 0 THEN Panic(m)
    ELSE LET r1 == rand(m.rng)
             curr_idx == Rem(r1.val, Len(m.input))
             r2 == rand(r1.rng)
             byte == Rem(r2.val, 256)
         IN  byte_insert_loop(
                 [m EXCEPT !.rng = r2.rng,
                           !.input = Insert(m.input, curr_idx, byte)],
                 n - 1)

byte_insert(m) ==
    LET slack == usub(m.max_size, Len(m.input))
    IN  IF slack < 0 /\ overflow_checks THEN Panic(m)
        ELSE IF slack = 0 THEN m
        ELSE LET ceiling == umin(slack, MAX_BYTE_CORRUPTION)
                 r == rand(m.rng)
                 insert_num == Rem(r.val, ceiling) + 1
             IN  byte_insert_loop([m EXCEPT !.rng = r.rng], insert_num)

RECURSIVE byte_overwrite_loop(_, _)
byte_overwrite_loop(m, n) ==
    IF n = 0 THEN m
    ELSE LET r1 == rand(m.rng)
             curr_idx == Rem(r1.val, Len(m.input))
             r2 == rand(r1.rng)
             byte == Rem(r2.val, 256)
         IN  byte_overwrite_loop(
                 [m EXCEPT !.rng = r2.rng,
                           !.input = Overwrite(m.input, curr_idx, <<byte>>)],
                 n - 1)

byte_overwrite(m) ==
    LET ceiling == Min(Len(m.input), MAX_BYTE_CORRUPTION)
    IN  IF ceiling = 0 THEN Panic(m)
        ELSE LET r == rand(m.rng)
                 overwrite_num == Rem(r.val, ceiling) + 1
             IN  byte_overwrite_loop([m EXCEPT !.rng = r.rng], overwrite_num)

RECURSIVE byte_delete_loop(_, _)
byte_delete_loop(m, n) ==
    IF n = 0 THEN m
    ELSE IF Len(m.input) = 0 THEN Panic(m)
    ELSE LET r1 == rand(m.rng)
             curr_idx == Rem(r1.val, Len(m.input))
         IN  byte_delete_loop(
                 [m EXCEPT !.rng = r1.rng,
                           !.input = Remove(m.input, curr_idx)],
                 n - 1)

byte_delete(m) ==
    LET len_1 == usub(Len(m.input), 1)
    IN  IF len_1 < 0 /\ overflow_checks THEN Panic(m)
        ELSE LET ceiling == umin(len_1, MAX_BYTE_CORRUPTION)
             IN  IF ceiling = 0 THEN m
                 ELSE LET r == rand(m.rng)
                          delete_num == Rem(r.val, ceiling) + 1
                      IN  byte_delete_loop([m EXCEPT !.rng = r.rng],
                                           delete_num)

-----------------------------------------------------------------------------
(* Block operators *)

RECURSIVE block_insert_loop(_, _, _, _)
block_insert_loop(buf, block, block_insert, i) ==
    IF i = Len(block) THEN buf
    ELSE block_insert_loop(Insert(buf, block_insert + i, block[i + 1]),
                           block, block_insert, i + 1)

block_insert(m) ==
    LET slack == usub(m.max_size, Len(m.input))
    IN  IF slack < 0 /\ overflow_checks THEN Panic(m)
        ELSE IF slack = 0 THEN m
        ELSE LET ceiling0 == umin(slack, MAX_BLOCK_CORRUPTION)
                 ceiling == IF ceiling0 > Len(m.input)
                            THEN Len(m.input) ELSE ceiling0
             IN  IF ceiling = 0 THEN Panic(m)
                 ELSE LET r1 == rand(m.rng)
                          block_size == Rem(r1.val, ceiling) + 1
                          max_start == Len(m.input) - block_size
                          r2 == rand(r1.rng)
                          block_start == Rem(r2.val, max_start + 1)
                          block == SubSeq(m.input, block_start + 1,
                                          block_start + block_size)
                          r3 == rand(r2.rng)
                          block_insert_at == Rem(r3.val, Len(m.input))
                      IN  [m EXCEPT
                             !.rng = r3.rng,
                             !.input = block_insert_loop(m.input, block,
                                                         block_insert_at, 0)]

block_overwrite(m) ==
    LET ceiling == Min(Len(m.input), MAX_BLOCK_CORRUPTION)
    IN  IF ceiling = 0 THEN Panic(m)
        ELSE LET r1 == rand(m.rng)
                 block_size == Rem(r1.val, ceiling) + 1
                 max_start == Len(m.input) - block_size
                 r2 == rand(r1.rng)
                 block_start == Rem(r2.val, max_start + 1)
                 block == SubSeq(m.input, block_start + 1,
                                 block_start + block_size)
                 r3 == rand(r2.rng)
                 overwrite_start == Rem(r3.val, max_start + 1)
             IN  [m EXCEPT
                    !.rng = r3.rng,
                    !.input = Overwrite(m.input, overwrite_start, block)]

\* On an empty buffer len - 1 overflows: a panic with overflow checks, and
\* without them a wrapped max_start whose drain range is out of bounds.
block_delete(m) ==
    IF Len(m.input) = 0 THEN Panic(m)
    ELSE LET ceiling == Min(Len(m.input) - 1, MAX_BLOCK_CORRUPTION)
         IN  IF ceiling = 0 THEN m
             ELSE LET r1 == rand(m.rng)
                      block_size == Rem(r1.val, ceiling) + 1
                      max_start == Len(m.input) - block_size
                      r2 == rand(r1.rng)
                      block_start == Rem(r2.val, max_start + 1)
                  IN  [m EXCEPT
                         !.rng = r2.rng,
                         !.input = SubSeq(m.input, 1, block_start)
                                   \o SubSeq(m.input,
                                             block_start + block_size + 1,
                                             Len(m.input))]

-----------------------------------------------------------------------------
(* Shape operators *)

RECURSIVE bit_flip_loop(_, _, _)
bit_flip_loop(m, num_bits, n) ==
    IF n = 0 THEN m
    ELSE LET r == rand(m.rng)
             bit_position == Rem(r.val, num_bits)
             byte_index == bit_position \div 8
             bit_index == bit_position % 8
         IN  bit_flip_loop(
                 [m EXCEPT
                    !.rng = r.rng,
                    !.input[byte_index + 1] =
                        FlipBit(m.input[byte_index + 1], bit_index)],
                 num_bits, n - 1)

\* MUTANT of bit_flip: the number of flips is drawn from 0..ceiling-1,
\* without + 1
bit_flip_no_floor(m) ==
    LET num_bits == Len(m.input) * 8
        ceiling == Min(num_bits, MAX_BIT_CORRUPTION)
    IN  IF ceiling = 0 THEN Panic(m)
        ELSE LET r == rand(m.rng)
                 num_flips == Rem(r.val, ceiling)
             IN  bit_flip_loop([m EXCEPT !.rng = r.rng], num_bits, num_flips)

bit_flip(m) ==
    LET num_bits == Len(m.input) * 8
        ceiling == Min(num_bits, MAX_BIT_CORRUPTION)
    IN  IF ceiling = 0 THEN Panic(m)
        ELSE LET r == rand(m.rng)
                 num_flips == Rem(r.val, ceiling) + 1
             IN  bit_flip_loop([m EXCEPT !.rng = r.rng], num_bits, num_flips)

\* The value of a word below 2^30, and -1 (too large to hold) otherwise
ToNat(w) ==
    IF \A i \in w : i < 30
    THEN ByteValue(w, 0, 0) + 256 * ByteValue(w, 1, 0)
         + 65536 * ByteValue(w, 2, 0) + 16777216 * ByteValue(w, 3, 0)
    ELSE -1

\* w % (2^64 + d) for a wrapped modulus (d < 0); -1 when the result is
\* 2^30 or more
RemWrapped(w, d) ==
    LET c == ToNat(Word \ w)    \* 2^64 - 1 - w
    IN  IF c >= 0 /\ c <= (-d) - 1 THEN (-d) - 1 - c ELSE ToNat(w)

RECURSIVE grow_loop(_, _, _, _)
grow_loop(buf, idx, byte, n) ==
    IF n = 0 THEN buf ELSE grow_loop(Insert(buf, idx, byte), idx, byte, n - 1)

\* With a wrapped slack the size drawn is any 64-bit value: growing the
\* buffer past MaxAlloc bytes ends in an allocation failure.
grow(m) ==
    LET slack == usub(m.max_size, Len(m.input))
    IN  IF slack < 0 /\ overflow_checks THEN Panic(m)
        ELSE IF slack = 0 THEN m
        ELSE LET r1 == rand(m.rng)
                 size == IF slack > 0 THEN Rem(r1.val, slack) + 1
                         ELSE RemWrapped(r1.val, slack) + 1
                 r2 == rand(r1.rng)
                 r3 == rand(r2.rng)
             IN  IF Len(m.input) = 0 THEN Panic(m)
                 ELSE IF size = 0 \/ Len(m.input) + size > MaxAlloc
                      THEN Panic(m)
                 ELSE [m EXCEPT
                         !.rng = r3.rng,
                         !.input = grow_loop(m.input,
                                             Rem(r2.val, Len(m.input)),
                                             Rem(r3.val, 256), size)]

\* Vec::truncate(idx) leaves a buffer of idx bytes or fewer as it is.  On
\* an empty buffer without overflow checks slack wraps to 2^64 - 1 and idx
\* is 1 or more.
\* MUTANT of truncate: the new length is drawn from 0..slack-1, without + 1
truncate_no_floor(m) ==
    LET slack == usub(Len(m.input), 1)
    IN  IF slack < 0 /\ overflow_checks THEN Panic(m)
        ELSE IF slack = 0 THEN m
        ELSE IF slack < 0 THEN [m EXCEPT !.rng = rand(m.rng).rng]
        ELSE LET r == rand(m.rng)
                 idx == Rem(r.val, slack)
             IN  [m EXCEPT !.rng = r.rng,
                           !.input = SubSeq(m.input, 1, idx)]

truncate(m) ==
    LET slack == usub(Len(m.input), 1)
    IN  IF slack < 0 /\ overflow_checks THEN Panic(m)
        ELSE IF slack = 0 THEN m
        ELSE IF slack < 0 THEN [m EXCEPT !.rng = rand(m.rng).rng]
        ELSE LET r == rand(m.rng)
                 idx == Rem(r.val, slack) + 1
             IN  [m EXCEPT !.rng = r.rng,
                           !.input = SubSeq(m.input, 1, idx)]

\* Mutator::generate_random_input, on the cleared buffer
RECURSIVE generate_random_input_loop(_, _, _)
generate_random_input_loop(m, i, input_size) ==
    IF i = input_size THEN m
    ELSE LET r == rand(m.rng)
         IN  generate_random_input_loop(
                 [m EXCEPT !.rng = r.rng,
                           !.input[i + 1] = Rem(r.val, 256)],
                 i + 1, input_size)

\* MUTANT of generate_random_input: the size drawn is not raised by one
generate_random_input_no_floor(m) ==
    LET r == rand(m.rng)
        input_size == Rem(r.val, m.max_size)
    IN  generate_random_input_loop(
            [m EXCEPT !.rng = r.rng,
                      !.input = Resize(m.input, input_size)],
            0, input_size)

generate_random_input(m) ==
    IF m.max_size = 0 THEN Panic(m)
    ELSE LET r == rand(m.rng)
             input_size == Rem(r.val, m.max_size) + 1
         IN  generate_random_input_loop(
                 [m EXCEPT !.rng = r.rng,
                           !.input = Resize(m.input, input_size)],
                 0, input_size)

-----------------------------------------------------------------------------
(* Magic catalogue and magic transformer *)

MAGIC_NUMBERS == <<
    {},        \* 0
    0..63,     \* u64::MAX
    0..31,     \* u32::MAX as u64
    0..15,     \* u16::MAX as u64
    0..7,      \* u8::MAX as u64
    0..62,     \* i64::MAX as u64
    0..30,     \* i32::MAX as u64
    0..14,     \* i16::MAX as u64
    0..6,      \* i8::MAX as u64
    {63},      \* i64::MIN as u64
    31..63,    \* i32::MIN as u64 (sign extended)
    15..63,    \* i16::MIN as u64
    7..63,     \* i8::MIN as u64
    {63},      \* 0b1 << 63
    {31},      \* 0b1 << 31
    {15},      \* 0b1 << 15
    {7},       \* 0b1 << 7
    0..62,     \* !(0b1 << 63)
    0..30,     \* !(0b1 << 31) & 0xFFFFFFFF
    0..14,     \* !(0b1 << 15) & 0xFFFF
    0..6,      \* !(0b1 << 7) & 0xFF
    {1}, {2}, {3}, {4}, {5}, {6}, {7}, {8}, {9}, {10}, {11}, {12}, {13},
    {14}       \* 2, 4, ..., 16384
>>

\* u64::to_ne_bytes on x86_64 (little endian): byte j holds bits 8j..8j+7
to_ne_bytes(w) == [j \in 1..8 |-> ByteValue(w, j - 1, 0)]

\* magic - 1 and magic + 1, wrapping
WrappingSub1(w) ==
    IF w = {} THEN Word
    ELSE LET k == CHOOSE i \in w : \A j \in w : i <= j
         IN  (w \ {k}) \cup {i \in Word : i < k}

WrappingAdd1(w) ==
    IF w = Word THEN {}
    ELSE LET k == CHOOSE i \in Word \ w : \A j \in Word \ w : i <= j
         IN  {i \in w : i > k} \cup {k}

rotate_left(w, n) == {(i + n) % 64 : i \in w}

rotate_right(w, n) == {(i + 64 - n) % 64 : i \in w}

swap_bytes(w) == {8 * (7 - (i \div 8)) + (i % 8) : i \in w}

\* The value mutate_magic derives from magic: the first match
mutate_magic_value(s, magic) ==
    LET r == rand(s)
        t == Rem(r.val, 14)
        r2 == rand(r.rng)
        bit == Rem(r2.val, 64)
    IN  CASE t = 0 -> [magic |-> magic, rng |-> r.rng, panic |-> FALSE]
          [] t = 1 -> [magic |-> magic \cap (0..7), rng |-> r.rng,
                       panic |-> FALSE]
          [] t = 2 -> [magic |-> magic \cap (0..15), rng |-> r.rng,
                       panic |-> FALSE]
          [] t = 3 -> [magic |-> magic \cap (0..31), rng |-> r.rng,
                       panic |-> FALSE]
          [] t = 4 -> [magic |-> WrappingSub1(magic), rng |-> r.rng,
                       panic |-> overflow_checks /\ magic = Zero]
          [] t = 5 -> [magic |-> WrappingAdd1(magic), rng |-> r.rng,
                       panic |-> overflow_checks /\ magic = AllOnes]
          [] t = 6 -> [magic |-> Word \ magic, rng |-> r.rng,
                       panic |-> FALSE]
          [] t = 7 -> [magic |-> Shl(magic, 1), rng |-> r.rng,
                       panic |-> FALSE]
          [] t = 8 -> [magic |-> Shr(magic, 1), rng |-> r.rng,
                       panic |-> FALSE]
          [] t = 9 -> [magic |-> rotate_left(magic, 8), rng |-> r.rng,
                       panic |-> FALSE]
          [] t = 10 -> [magic |-> rotate_right(magic, 8), rng |-> r.rng,
                        panic |-> FALSE]
          [] t = 11 -> [magic |-> Xor(magic, 0..31), rng |-> r.rng,
                        panic |-> FALSE]
          [] t = 12 -> [magic |-> swap_bytes(magic), rng |-> r.rng,
                        panic |-> FALSE]
          [] t = 13 -> [magic |-> Xor(magic, {bit}), rng |-> r2.rng,
                        panic |-> FALSE]

\* MUTANT of magic_slice: the arm of n = 4 takes bytes 2..8, six bytes
magic_slice_six(magic_bytes, n) ==
    CASE n = 0 -> magic_bytes
      [] n = 1 -> SubSeq(magic_bytes, 1, 4)
      [] n = 2 -> SubSeq(magic_bytes, 5, 8)
      [] n = 3 -> SubSeq(magic_bytes, 1, 2)
      [] n = 4 -> SubSeq(magic_bytes, 3, 8)
      [] n = 5 -> SubSeq(magic_bytes, 5, 6)
      [] n = 6 -> SubSeq(magic_bytes, 7, 8)
      [] n = 7 -> <<magic_bytes[1]>>
      [] n = 8 -> <<magic_bytes[2]>>
      [] n = 9 -> <<magic_bytes[3]>>
      [] n = 10 -> <<magic_bytes[4]>>
      [] n = 11 -> <<magic_bytes[5]>>
      [] n = 12 -> <<magic_bytes[6]>>
      [] n = 13 -> <<magic_bytes[7]>>
      [] n = 14 -> <<magic_bytes[8]>>

\* The slice of the bytes mutate_magic returns: the second match
magic_slice(magic_bytes, n) ==
    CASE n = 0 -> magic_bytes
      [] n = 1 -> SubSeq(magic_bytes, 1, 4)
      [] n = 2 -> SubSeq(magic_bytes, 5, 8)
      [] n = 3 -> SubSeq(magic_bytes, 1, 2)
      [] n = 4 -> SubSeq(magic_bytes, 3, 4)
      [] n = 5 -> SubSeq(magic_bytes, 5, 6)
      [] n = 6 -> SubSeq(magic_bytes, 7, 8)
      [] n = 7 -> <<magic_bytes[1]>>
      [] n = 8 -> <<magic_bytes[2]>>
      [] n = 9 -> <<magic_bytes[3]>>
      [] n = 10 -> <<magic_bytes[4]>>
      [] n = 11 -> <<magic_bytes[5]>>
      [] n = 12 -> <<magic_bytes[6]>>
      [] n = 13 -> <<magic_bytes[7]>>
      [] n = 14 -> <<magic_bytes[8]>>

\* Mutator::mutate_magic: the bytes returned and the PRNG state left
mutate_magic(s, magic) ==
    LET v == mutate_magic_value(s, magic)
        r == rand(v.rng)
    IN  IF v.panic THEN [bytes |-> <<>>, rng |-> v.rng, panic |-> TRUE]
        ELSE [bytes |-> magic_slice(to_ne_bytes(v.magic), Rem(r.val, 15)),
              rng |-> r.rng, panic |-> FALSE]

\* The magic bytes of one iteration of a magic operator, drawn after the
\* index: a catalogue entry, passed through mutate_magic half of the time
magic_bytes_draw(s) ==
    LET r1 == rand(s)
        magic == MAGIC_NUMBERS[Rem(r1.val, Len(MAGIC_NUMBERS)) + 1]
        r2 == rand(r1.rng)
    IN  IF Rem(r2.val, 2) = 0 THEN mutate_magic(r2.rng, magic)
        ELSE [bytes |-> to_ne_bytes(magic), rng |-> r2.rng, panic |-> FALSE]

-----------------------------------------------------------------------------
(* Magic operators *)

RECURSIVE magic_byte_insert_loop(_, _)
magic_byte_insert_loop(m, n) ==
    IF n = 0 THEN m
    ELSE IF Len(m.input) = 0 THEN Panic(m)
    ELSE LET r == rand(m.rng)
             idx == Rem(r.val, Len(m.input))
             mb == magic_bytes_draw(r.rng)
         IN  IF mb.panic THEN Panic(m)
             ELSE magic_byte_insert_loop(
                      [m EXCEPT
                         !.rng = mb.rng,
                         !.input = block_insert_loop(m.input, mb.bytes,
                                                     idx, 0)],
                      n - 1)

magic_byte_insert(m) ==
    LET slack == usub(m.max_size, Len(m.input))
    IN  IF slack < 0 /\ overflow_checks THEN Panic(m)
        ELSE IF slack = 0 THEN m
        ELSE LET ceiling == umin(slack, MAX_BYTE_CORRUPTION)
                 r == rand(m.rng)
                 insert_num == Rem(r.val, ceiling) + 1
                 num_u64 == insert_num \div 8
             IN  magic_byte_insert_loop([m EXCEPT !.rng = r.rng], num_u64)

RECURSIVE magic_byte_overwrite_loop(_, _, _)
magic_byte_overwrite_loop(m, max_overwrite, n) ==
    IF n = 0 THEN m
    ELSE LET r == rand(m.rng)
             idx == Rem(r.val, max_overwrite + 1)
             mb == magic_bytes_draw(r.rng)
         IN  IF mb.panic \/ idx + Len(mb.bytes) > Len(m.input)
             THEN Panic(m)
             ELSE magic_byte_overwrite_loop(
                      [m EXCEPT
                         !.rng = mb.rng,
                         !.input = Overwrite(m.input, idx, mb.bytes)],
                      max_overwrite, n - 1)

\* MUTANT of magic_byte_overwrite: the start index is bounded by len - 1
\* instead of len - 8
magic_byte_overwrite_any_start(m) ==
    IF Len(m.input) < 8 THEN m
    ELSE LET ceiling == Min(Len(m.input), MAX_BYTE_CORRUPTION)
             r == rand(m.rng)
             overwrite_num == Rem(r.val, ceiling) + 1
             num_u64 == overwrite_num \div 8
             max_overwrite == Len(m.input) - 1
         IN  magic_byte_overwrite_loop([m EXCEPT !.rng = r.rng],
                                       max_overwrite, num_u64)

magic_byte_overwrite(m) ==
    IF Len(m.input) < 8 THEN m
    ELSE LET ceiling == Min(Len(m.input), MAX_BYTE_CORRUPTION)
             r == rand(m.rng)
             overwrite_num == Rem(r.val, ceiling) + 1
             num_u64 == overwrite_num \div 8
             max_overwrite == Len(m.input) - 8
         IN  magic_byte_overwrite_loop([m EXCEPT !.rng = r.rng],
                                       max_overwrite, num_u64)

-----------------------------------------------------------------------------
(* Corpus (crate::corpus, outside this file): a sequence of buffers *)

num_inputs(c) == Len(c)

\* Option<&[u8]>: the set holding the input, or the empty set for None
get_input(c, idx) == IF idx < Len(c) THEN {c[idx + 1]} ELSE {}

-----------------------------------------------------------------------------
(* Splice *)

\* The locals splice draws before it touches the buffer, and how it leaves:
\* "panic", "noop" (an early return) or "copy"
splice_draws(m, c) ==
    IF Len(m.input) = 0 \/ num_inputs(c) = 0
    THEN [exit |-> "panic", rng |-> m.rng, old_block_start |-> 0,
          old_block_len |-> 0, new_idx |-> 0, new_block_start |-> 0,
          new_block_len |-> 0]
    ELSE
    LET r1 == rand(m.rng)
        old_block_start == Rem(r1.val, Len(m.input))
        r2 == rand(r1.rng)
        old_block_len == Rem(r2.val, Len(m.input) - old_block_start) + 1
        r3 == rand(r2.rng)
        new_idx == Rem(r3.val, num_inputs(c))
        got == get_input(c, new_idx)
        new_input == CHOOSE x \in got : TRUE
        slack == usub(m.max_size, old_block_len)
        r4 == rand(r3.rng)
        new_block_start == Rem(r4.val, Len(new_input))
        new_ceiling == umin(slack, Len(new_input) - new_block_start)
        r5 == rand(r4.rng)
        new_block_len == Rem(r5.val, new_ceiling) + 1
        early(how) == [exit |-> how, rng |-> r3.rng,
                       old_block_start |-> old_block_start,
                       old_block_len |-> old_block_len, new_idx |-> new_idx,
                       new_block_start |-> 0, new_block_len |-> 0]
    IN  IF got = {} THEN early("noop")
        ELSE IF slack < 0 /\ overflow_checks THEN early("panic")
        ELSE IF slack = 0 THEN early("noop")
        ELSE IF Len(new_input) = 0 THEN early("panic")
        ELSE [exit |-> "copy", rng |-> r5.rng,
              old_block_start |-> old_block_start,
              old_block_len |-> old_block_len, new_idx |-> new_idx,
              new_block_start |-> new_block_start,
              new_block_len |-> new_block_len]

\* slice::copy_within(src_start .. src_start + n, 0): a memmove
copy_within_front(buf, src_start, n) ==
    [i \in 1..Len(buf) |-> IF i <= n THEN buf[src_start + i] ELSE buf[i]]

\* MUTANT of splice_copy: the new block is written before the old block is
\* moved to the front
splice_copy_new_first(buf, d, new_input) ==
    LET total_len == d.old_block_len + d.new_block_len
        resized == IF total_len > Len(buf) THEN Resize(buf, total_len)
                   ELSE buf
        new_block == SubSeq(new_input, d.new_block_start + 1,
                            d.new_block_start + d.new_block_len)
        written == Overwrite(resized, d.old_block_len, new_block)
        moved == copy_within_front(written, d.old_block_start,
                                   d.old_block_len)
    IN  IF total_len < Len(moved) THEN Resize(moved, total_len) ELSE moved

\* The buffer splice leaves: resize, move the old block to the front, copy
\* the new block behind it, truncate
splice_copy(buf, d, new_input) ==
    LET total_len == d.old_block_len + d.new_block_len
        resized == IF total_len > Len(buf) THEN Resize(buf, total_len)
                   ELSE buf
        moved == copy_within_front(resized, d.old_block_start,
                                   d.old_block_len)
        new_block == SubSeq(new_input, d.new_block_start + 1,
                            d.new_block_start + d.new_block_len)
        written == Overwrite(moved, d.old_block_len, new_block)
    IN  IF total_len < Len(written) THEN Resize(written, total_len)
        ELSE written

splice(m, c) ==
    LET d == splice_draws(m, c)
    IN  IF d.exit = "panic" THEN Panic(m)
        ELSE IF d.exit = "noop" THEN [m EXCEPT !.rng = d.rng]
        ELSE [m EXCEPT
                !.rng = d.rng,
                !.input = splice_copy(m.input, d, c[d.new_idx + 1])]

-----------------------------------------------------------------------------
(* The catalogue of operators and the dispatch of one round *)

MUTATIONS == <<"ByteInsert", "ByteOverwrite", "ByteDelete", "BlockInsert",
               "BlockOverwrite", "BlockDelete", "BitFlip", "Grow",
               "Truncate", "MagicByteInsert", "MagicByteOverwrite",
               "Splice">>

\* the operator of a tag
apply(tag, m, c) ==
    CASE tag = "ByteInsert" -> byte_insert(m)
      [] tag = "ByteOverwrite" -> byte_overwrite(m)
      [] tag = "ByteDelete" -> byte_delete(m)
      [] tag = "BlockInsert" -> block_insert(m)
      [] tag = "BlockOverwrite" -> block_overwrite(m)
      [] tag = "BlockDelete" -> block_delete(m)
      [] tag = "BitFlip" -> bit_flip(m)
      [] tag = "Grow" -> grow(m)
      [] tag = "Truncate" -> truncate(m)
      [] tag = "MagicByteInsert" -> magic_byte_insert(m)
      [] tag = "MagicByteOverwrite" -> magic_byte_overwrite(m)
      [] tag = "Splice" -> splice(m, c)

\* last_mutation.push(tag), unless the operator has panicked
push(after, tag) ==
    IF after.panic THEN after
    ELSE [after EXCEPT !.last_mutation = Append(@, tag)]

\* MUTANT of dispatch: the tag is pushed only if the operator changed the
\* buffer
dispatch_skips_noop(mutation_idx, m, c) ==
    IF apply(MUTATIONS[mutation_idx + 1], m, c).input = m.input
    THEN apply(MUTATIONS[mutation_idx + 1], m, c)
    ELSE push(apply(MUTATIONS[mutation_idx + 1], m, c),
              MUTATIONS[mutation_idx + 1])

\* One arm of the match of mutate_input: run the operator, then push its tag
dispatch(mutation_idx, m, c) ==
    push(apply(MUTATIONS[mutation_idx + 1], m, c),
         MUTATIONS[mutation_idx + 1])

-----------------------------------------------------------------------------
(* Construction and seeding *)

\* generate_seed(): the hash (DefaultHasher) of the time-stamp counter, a
\* usize the caller does not control.  The model draws one of two values, a
\* small one and the top bit alone; whether the hash can be 0 is not known
\* and 0 is not drawn.
GeneratedSeeds == {FromNat(77), {63}}

\* Option<usize>: the empty set is None, {s} is Some(s)
SeedArguments == {{}} \cup {{FromNat(n)} : n \in 0..MaxSeed}

\* MUTANT of new: the seed argument is ignored, the state is always generated
new_ignores_seed(seed, size, generated) ==
    [rng |-> generated,
     input |-> <<>>,
     max_size |-> size,
     last_mutation |-> <<>>]

\* Mutator::new, where generated is what generate_seed() returns if called
new(seed, size, generated) ==
    [rng |-> IF seed = {} THEN generated ELSE CHOOSE s \in seed : TRUE,
     input |-> <<>>,
     max_size |-> size,
     last_mutation |-> <<>>]

-----------------------------------------------------------------------------
(* mutate_input, in steps: the entry up to the loop, one round, the exit.  *)
(* A frame is a Mutator with the position and the locals of its owner.     *)

Working(f) == [rng |-> f.rng, input |-> f.input, max_size |-> f.max_size,
               last_mutation |-> f.last_mutation, panic |-> FALSE]

\* MUTANT of mutate_input_begin: the scratch path is taken on the gen draw
\* alone, so an empty corpus is indexed (a remainder by zero)
mutate_input_begin_gen_only(f, c) ==
    LET cleared == [Working(f) EXCEPT !.input = <<>>, !.last_mutation = <<>>]
        r1 == rand(f.rng)
        gen == Rem(r1.val, 100)
        r2 == rand(r1.rng)
        r3 == rand(r2.rng)
        scratch == generate_random_input([cleared EXCEPT !.rng = r1.rng])
        chosen == get_input(c, Rem(r2.val, num_inputs(c)))
    IN  IF gen < GEN_SCRATCH_RATE
        THEN IF scratch.panic
             THEN [f EXCEPT !.pc = "panicked", !.calls = @ + 1]
             ELSE [f EXCEPT !.rng = scratch.rng, !.input = scratch.input,
                            !.last_mutation = <<>>, !.calls = @ + 1,
                            !.pc = "return_scratch"]
        ELSE IF num_inputs(c) = 0 \/ chosen = {}
             THEN [f EXCEPT !.pc = "panicked", !.calls = @ + 1]
             ELSE [f EXCEPT !.rng = r3.rng,
                            !.input = CHOOSE x \in chosen : TRUE,
                            !.last_mutation = <<>>, !.calls = @ + 1,
                            !.rounds = Rem(r3.val, MAX_STACK) + 1,
                            !.round = 0,
                            !.pc = "rounds"]

\* lines 619-646: clear, the scratch path or the copy of a corpus input
mutate_input_begin(f, c) ==
    LET cleared == [Working(f) EXCEPT !.input = <<>>, !.last_mutation = <<>>]
        r1 == rand(f.rng)
        gen == Rem(r1.val, 100)
        r2 == rand(r1.rng)
        r3 == rand(r2.rng)
        scratch == generate_random_input([cleared EXCEPT !.rng = r1.rng])
        chosen == get_input(c, Rem(r2.val, num_inputs(c)))
    IN  IF num_inputs(c) = 0 \/ gen < GEN_SCRATCH_RATE
        THEN IF scratch.panic
             THEN [f EXCEPT !.pc = "panicked", !.calls = @ + 1]
             ELSE [f EXCEPT !.rng = scratch.rng, !.input = scratch.input,
                            !.last_mutation = <<>>, !.calls = @ + 1,
                            !.pc = "return_scratch"]
        ELSE IF chosen = {}
             THEN [f EXCEPT !.pc = "panicked", !.calls = @ + 1]
             ELSE [f EXCEPT !.rng = r3.rng,
                            !.input = CHOOSE x \in chosen : TRUE,
                            !.last_mutation = <<>>, !.calls = @ + 1,
                            !.rounds = Rem(r3.val, MAX_STACK) + 1,
                            !.round = 0,
                            !.pc = "rounds"]

\* MUTANT of round_draws: the pool is the whole catalogue in every round
round_draws_whole_catalogue(s) ==
    LET r1 == rand(s)
        longshot == Rem(r1.val, 100)
        pool == Len(MUTATIONS)
        r2 == rand(r1.rng)
    IN  [longshot |-> longshot, pool |-> pool,
         mutation_idx |-> Rem(r2.val, pool), rng |-> r2.rng]

\* lines 652-662: the draws of one round
round_draws(s) ==
    LET r1 == rand(s)
        longshot == Rem(r1.val, 100)
        pool == IF longshot <= LONGSHOT_MUTATION_RATE
                THEN Len(MUTATIONS) ELSE Len(MUTATIONS) - 3
        r2 == rand(r1.rng)
    IN  [longshot |-> longshot, pool |-> pool,
         mutation_idx |-> Rem(r2.val, pool), rng |-> r2.rng]

\* the frame after a round that left the Mutator as `after`
round_done(f, after) ==
    IF after.panic THEN [f EXCEPT !.pc = "panicked"]
    ELSE [f EXCEPT !.rng = after.rng, !.input = after.input,
                   !.last_mutation = after.last_mutation,
                   !.round = @ + 1]

\* the dispatch of a round whose draws are d
round_dispatch(f, c, d) ==
    dispatch(d.mutation_idx, [Working(f) EXCEPT !.rng = d.rng], c)

\* lines 649-715: one round of the loop
mutate_input_round(f, c) ==
    round_done(f, round_dispatch(f, c, round_draws(f.rng)))

\* lines 717-720: the assertions and the return
mutate_input_return(f) ==
    IF Len(f.input) # 0 /\ Len(f.input) <= f.max_size
    THEN [f EXCEPT !.pc = "return_mutated"]
    ELSE [f EXCEPT !.pc = "panicked"]

\* MUTANT of memcpy_input: the buffer is not cleared before the copy
memcpy_input_no_clear(m, slice) == [m EXCEPT !.input = @ \o slice]

\* Mutator::memcpy_input
memcpy_input(m, slice) == [m EXCEPT !.input = <<>> \o slice]

-----------------------------------------------------------------------------
(* The state machine of one Mutator and its owner *)

Self == [rng |-> rng, input |-> input, max_size |-> max_size,
         last_mutation |-> last_mutation, pc |-> pc, rounds |-> rounds,
         round |-> round, calls |-> calls]

Becomes(f) ==
    /\ rng' = f.rng
    /\ input' = f.input
    /\ max_size' = f.max_size
    /\ last_mutation' = f.last_mutation
    /\ pc' = f.pc
    /\ rounds' = f.rounds
    /\ round' = f.round
    /\ calls' = f.calls

\* no call of the owner is in progress
AtRest(p) == p \in {"idle", "return_scratch", "return_mutated"}

Constructed(m) ==
    [rng |-> m.rng, input |-> m.input, max_size |-> m.max_size,
     last_mutation |-> m.last_mutation, pc |-> "idle", rounds |-> 0,
     round |-> 0, calls |-> 0]

Sizes == {1, 2, MaxSize \div 2, MaxSize}

\* The corpora handed to mutate_input: empty, the ones of the scenarios of
\* spec.md section 8, and one with an empty entry.  The entries of 4 and 8
\* bytes are longer than a max_size of 1 or 2.
Corpora == {
    <<>>,
    << <<170>> >>,
    << <<17, 34, 51, 68>>, <<170, 187, 204, 221>> >>,
    << <<0, 0, 0, 0, 0, 0, 0, 0>> >>,
    << <<>>, <<1, 2>> >> }

Slices == {<<>>, <<1, 2, 3>>}

Init ==
    \E seed \in SeedArguments, size \in Sizes, g \in GeneratedSeeds :
        /\ rng = new(seed, size, g).rng
        /\ input = new(seed, size, g).input
        /\ max_size = new(seed, size, g).max_size
        /\ last_mutation = new(seed, size, g).last_mutation
        /\ corpus = <<>>
        /\ pc = "idle"
        /\ rounds = 0
        /\ round = 0
        /\ overflow_checks \in BOOLEAN
        /\ calls = 0
        /\ last_call = [name |-> "new", slice |-> <<>>, gen |-> 0]
        /\ before = <<>>
        /\ twin = Constructed(new(seed, size, g))

MutateBegin(c) ==
    /\ AtRest(pc)
    /\ calls < MaxCalls
    /\ Becomes(mutate_input_begin(Self, c))
    /\ corpus' = c
    /\ last_call' = [name |-> "mutate_input", slice |-> <<>>,
                     gen |-> Rem(rng, 100)]
    /\ before' = <<>>
    /\ UNCHANGED <<overflow_checks, twin>>

MutateRound ==
    /\ pc = "rounds"
    /\ round < rounds
    /\ Becomes(mutate_input_round(Self, corpus))
    /\ before' = input
    /\ UNCHANGED <<corpus, overflow_checks, last_call, twin>>

MutateReturn ==
    /\ pc = "rounds"
    /\ round = rounds
    /\ Becomes(mutate_input_return(Self))
    /\ UNCHANGED <<corpus, overflow_checks, last_call, before, twin>>

MemcpyInput(slice) ==
    /\ AtRest(pc)
    /\ Becomes([memcpy_input(Self, slice) EXCEPT !.pc = "idle"])
    /\ last_call' = [name |-> "memcpy_input", slice |-> slice, gen |-> 0]
    /\ UNCHANGED <<corpus, overflow_checks, before, twin>>

\* Mutator::reseed
Reseed(generated) ==
    /\ AtRest(pc)
    /\ rng' = generated
    /\ pc' = "idle"
    /\ last_call' = [name |-> "reseed", slice |-> <<>>, gen |-> 0]
    /\ UNCHANGED <<input, max_size, last_mutation, corpus, rounds, round,
                   overflow_checks, calls, before, twin>>

Next ==
    \/ \E c \in Corpora : MutateBegin(c)
    \/ MutateRound
    \/ MutateReturn
    \/ \E slice \in Slices : MemcpyInput(slice)
    \/ \E g \in GeneratedSeeds : Reseed(g)

Spec == Init /\ [][Next]_vars

-----------------------------------------------------------------------------
(* The operator harness: a Mutator inside the loop of mutate_input, holding *)
(* a buffer of 1..max_size bytes over a corpus whose entries have 1 to      *)
(* max_size bytes, and one round whose operator is forced (as in scenarios  *)
(* 4 and 5 of spec.md section 8) instead of drawn.                          *)

OpSizes == {MaxSize \div 2, 2 * MaxSize}

OpInputs == {
    <<170>>,
    <<17, 34, 51, 68>>,
    <<1, 2, 3, 4, 5, 6, 7>>,
    <<1, 2, 3, 4, 5, 6, 7, 8>>,
    <<0, 0, 0, 0, 0, 0, 0, 0>> }

OpCorpora == {
    << <<170>> >>,
    << <<17, 34, 51, 68>>, <<170, 187, 204, 221>> >> }

InitOps ==
    \E n \in 0..MaxOpSeed, size \in OpSizes, buf \in OpInputs,
       c \in OpCorpora :
        /\ Len(buf) <= size
        /\ \A i \in 1..Len(c) : Len(c[i]) <= size
        /\ rng = FromNat(n)
        /\ input = buf
        /\ max_size = size
        /\ last_mutation = <<>>
        /\ corpus = c
        /\ pc = "rounds"
        /\ rounds = 1
        /\ round = 0
        /\ overflow_checks \in BOOLEAN
        /\ calls = 1
        /\ last_call = [name |-> "mutate_input", slice |-> <<>>, gen |-> 0]
        /\ before = buf
        /\ twin = Constructed(new({FromNat(n)}, size, Zero))

ForcedRound(mutation_idx) ==
    /\ pc = "rounds"
    /\ round < rounds
    /\ Becomes(round_done(Self, dispatch(mutation_idx, Working(Self),
                                         corpus)))
    /\ before' = input
    /\ UNCHANGED <<corpus, overflow_checks, last_call, twin>>

NextOps == \E mutation_idx \in 0..(Len(MUTATIONS) - 1) :
               ForcedRound(mutation_idx)

SpecOps == InitOps /\ [][NextOps]_vars

-----------------------------------------------------------------------------
(* The mutate_magic harness: the Magic Transformer called on its own, on   *)
(* each value of the catalogue and on the PRNG state as one more 64-bit    *)
(* value, after a number of draws that walk the PRNG states (counted in    *)
(* calls).  last_call holds the argument and the bytes returned.           *)

MagicValues == {MAGIC_NUMBERS[i] : i \in 1..Len(MAGIC_NUMBERS)} \cup {rng}

InitMagic ==
    \E n \in 0..MaxMagicSeed :
        /\ rng = FromNat(n)
        /\ input = <<>>
        /\ max_size = MaxSize
        /\ last_mutation = <<>>
        /\ corpus = <<>>
        /\ pc = "idle"
        /\ rounds = 0
        /\ round = 0
        /\ overflow_checks \in BOOLEAN
        /\ calls = 0
        /\ last_call = [name |-> "new", slice |-> <<>>, gen |-> 0]
        /\ before = <<>>
        /\ twin = Constructed(new({FromNat(n)}, MaxSize, Zero))

\* the Mutator after mutate_magic left it as out
MagicReturned(out, magic) ==
    /\ pc' = IF out.panic THEN "panicked" ELSE "idle"
    /\ rng' = IF out.panic THEN rng ELSE out.rng
    /\ last_call' = [name |-> "mutate_magic", magic |-> magic,
                     returned |-> out.bytes]

MutateMagic(magic) ==
    /\ pc = "idle"
    /\ last_call.name # "mutate_magic"
    /\ MagicReturned(mutate_magic(rng, magic), magic)
    /\ UNCHANGED <<input, max_size, last_mutation, corpus, rounds, round,
                   overflow_checks, calls, before, twin>>

\* one call of Mutator::rand
Rand ==
    /\ pc = "idle"
    /\ last_call.name # "mutate_magic"
    /\ calls < MaxMagicDraws
    /\ rng' = rand(rng).rng
    /\ calls' = calls + 1
    /\ UNCHANGED <<input, max_size, last_mutation, corpus, pc, rounds, round,
                   overflow_checks, last_call, before, twin>>

NextMagic ==
    \/ Rand
    \/ \E magic \in MagicValues : MutateMagic(magic)

SpecMagic == InitMagic /\ [][NextMagic]_vars

-----------------------------------------------------------------------------
(* The magic_byte_overwrite harness: the operator called on its own on a   *)
(* buffer of 7, 8, 12 or 16 bytes, after a number of draws that walk the   *)
(* PRNG states (counted in calls).  before holds the buffer as it was.     *)

OverwriteInputs == {
    <<1, 2, 3, 4, 5, 6, 7>>,
    <<1, 2, 3, 4, 5, 6, 7, 8>>,
    <<1, 2, 3, 4, 5, 6, 7, 8, 9, 10, 11, 12>>,
    <<1, 2, 3, 4, 5, 6, 7, 8, 9, 10, 11, 12, 13, 14, 15, 16>> }

InitOverwrite ==
    \E n \in 0..MaxMagicSeed, buf \in OverwriteInputs :
        /\ rng = FromNat(n)
        /\ input = buf
        /\ max_size = 2 * MaxSize
        /\ last_mutation = <<>>
        /\ corpus = <<>>
        /\ pc = "idle"
        /\ rounds = 0
        /\ round = 0
        /\ overflow_checks \in BOOLEAN
        /\ calls = 0
        /\ last_call = [name |-> "new", slice |-> <<>>, gen |-> 0]
        /\ before = buf
        /\ twin = Constructed(new({FromNat(n)}, 2 * MaxSize, Zero))

\* the Mutator after an operator called on its own left it as `after`
OperatorReturned(after, name) ==
    /\ pc' = IF after.panic THEN "panicked" ELSE "returned"
    /\ rng' = IF after.panic THEN rng ELSE after.rng
    /\ input' = IF after.panic THEN input ELSE after.input
    /\ last_call' = [name |-> name, slice |-> <<>>, gen |-> 0]

MagicByteOverwrite ==
    /\ pc = "idle"
    /\ OperatorReturned(magic_byte_overwrite(Working(Self)),
                        "magic_byte_overwrite")
    /\ UNCHANGED <<max_size, last_mutation, corpus, rounds, round,
                   overflow_checks, calls, before, twin>>

NextOverwrite ==
    \/ Rand
    \/ MagicByteOverwrite

SpecOverwrite == InitOverwrite /\ [][NextOverwrite]_vars

-----------------------------------------------------------------------------
(* Two Mutators constructed independently from the same seed argument and  *)
(* max_size, each driven through mutate_input over the same corpus         *)

InitTwin ==
    \E seed \in SeedArguments \ {{}}, size \in Sizes,
       g1 \in GeneratedSeeds, g2 \in GeneratedSeeds, c \in Corpora :
        /\ rng = new(seed, size, g1).rng
        /\ input = new(seed, size, g1).input
        /\ max_size = new(seed, size, g1).max_size
        /\ last_mutation = new(seed, size, g1).last_mutation
        /\ corpus = c
        /\ pc = "idle"
        /\ rounds = 0
        /\ round = 0
        /\ overflow_checks \in BOOLEAN
        /\ calls = 0
        /\ last_call = [name |-> "new", slice |-> <<>>, gen |-> 0]
        /\ before = <<>>
        /\ twin = Constructed(new(seed, size, g2))

TwinFrame == <<rng, input, max_size, last_mutation, corpus, pc, rounds,
               round, overflow_checks, calls, last_call, before>>

TwinBegin ==
    /\ AtRest(twin.pc)
    /\ twin.calls < MaxCalls
    /\ twin' = mutate_input_begin(twin, corpus)
    /\ UNCHANGED TwinFrame

TwinRound ==
    /\ twin.pc = "rounds"
    /\ twin.round < twin.rounds
    /\ twin' = mutate_input_round(twin, corpus)
    /\ UNCHANGED TwinFrame

TwinReturn ==
    /\ twin.pc = "rounds"
    /\ twin.round = twin.rounds
    /\ twin' = mutate_input_return(twin)
    /\ UNCHANGED TwinFrame

NextTwin ==
    \/ MutateBegin(corpus)
    \/ MutateRound
    \/ MutateReturn
    \/ TwinBegin
    \/ TwinRound
    \/ TwinReturn

SpecTwin == InitTwin /\ [][NextTwin]_vars

-----------------------------------------------------------------------------
(* Properties of the Mutator's life cycle, checked under Spec *)

Returned == pc \in {"return_scratch", "return_mutated"}

\* C1: whenever mutate_input has returned, the buffer holds at least one
\* byte and at most max_size bytes, for every seed and every corpus (empty,
\* or with an empty entry, included) and max_size >= 1.
OutputLengthBounds ==
    Returned => 1 <= Len(input) /\ Len(input) <= max_size

\* a call over a corpus has returned after three rounds or more with the
\* buffer at its largest
OutputLengthBoundsWitness ==
    /\ pc = "return_mutated"
    /\ Len(last_mutation) >= 3
    /\ max_size > 1
    /\ Len(input) = max_size

\* C3: a call of mutate_input over an empty corpus takes the scratch path
\* whatever gen is: it returns (it neither enters the rounds nor fails on
\* an index into the corpus) and last_mutation is empty.
EmptyCorpusScratch ==
    (last_call.name = "mutate_input" /\ corpus = <<>>) =>
        pc = "return_scratch" /\ last_mutation = <<>>

\* the second call of a Mutator is over an empty corpus, its gen was not
\* below GEN_SCRATCH_RATE, and it has returned
EmptyCorpusScratchWitness ==
    /\ last_call.name = "mutate_input"
    /\ corpus = <<>>
    /\ last_call.gen >= GEN_SCRATCH_RATE
    /\ calls = 2
    /\ pc = "return_scratch"

\* the tag the loop of mutate_input dispatches from PRNG state s
DispatchedTag(s) == MUTATIONS[round_draws(s).mutation_idx + 1]

\* C4: last_mutation is empty after a scratch return; in the corpus path it
\* holds one tag per round run so far, each round appends the tag of the
\* operator it dispatched whether or not the buffer changed, and at the
\* return it holds rounds tags, 1 <= rounds <= MAX_STACK; a call starts
\* from an empty list.
LastMutationRecord ==
    /\ [](pc = "return_scratch" => last_mutation = <<>>)
    /\ [](pc = "rounds" => Len(last_mutation) = round /\ round <= rounds)
    /\ [](pc = "return_mutated" =>
            /\ Len(last_mutation) = rounds
            /\ 1 <= rounds /\ rounds <= MAX_STACK)
    /\ [][(pc = "rounds" /\ pc' = "rounds" /\ round' = round + 1) =>
            last_mutation' = Append(last_mutation, DispatchedTag(rng))]_vars
    /\ [][(last_call'.name = "mutate_input" /\ calls' = calls + 1
           /\ pc' = "rounds") => last_mutation' = <<>>]_vars

\* with max_size = 1 the last of two or more rounds was an insertion, which
\* had no room and left the one-byte buffer as it was
LastMutationRecordWitness ==
    /\ pc = "return_mutated"
    /\ max_size = 1
    /\ Len(last_mutation) >= 2
    /\ last_mutation[Len(last_mutation)] \in
           {"ByteInsert", "BlockInsert", "Grow"}
    /\ input = before

\* C6: memcpy_input(x) leaves input equal to x, whatever it held, and does
\* not change rng, last_mutation or max_size.
MemcpyReplacesInput ==
    [][last_call'.name = "memcpy_input" =>
        /\ input' = last_call'.slice
        /\ rng' = rng
        /\ last_mutation' = last_mutation
        /\ max_size' = max_size]_vars

\* memcpy_input was called with three bytes on a Mutator whose last
\* mutate_input ran rounds
MemcpyReplacesInputWitness ==
    /\ last_call.name = "memcpy_input"
    /\ last_call.slice = <<1, 2, 3>>
    /\ input = <<1, 2, 3>>
    /\ last_mutation # <<>>

\* C7: a nonzero PRNG state stays nonzero: no step other than a reseed
\* takes rng from nonzero to 0, and one more draw from a nonzero state
\* leaves a nonzero state.
NonzeroStaysNonzero ==
    /\ [](rng # Zero => rand(rng).rng # Zero)
    /\ [][(last_call'.name # "reseed" /\ rng # Zero) => rng' # Zero]_vars

\* two calls have returned, the second after MAX_STACK rounds, and rng is
\* not 0
NonzeroStaysNonzeroWitness ==
    /\ pc = "return_mutated"
    /\ calls = 2
    /\ Len(last_mutation) = MAX_STACK
    /\ rng # Zero

\* C8 as spec.md states it: seeding enforces rng # 0, so rng is not 0 after
\* new, after reseed and after every return of mutate_input.  Mutator::new
\* stores Some(0) as it is: the statement fails in the initial state.
SeedingEnforcesNonzero ==
    (AtRest(pc) /\ last_call.name \in {"new", "reseed", "mutate_input"}) =>
        rng # Zero

-----------------------------------------------------------------------------
(* Properties of single operators, checked under SpecOps *)

\* C5: no operator, applied to a buffer of one byte or more, leaves the
\* buffer empty: in every state of a round (failed rounds, which leave no
\* buffer to read, apart) a buffer that was non-empty at the entry of the
\* round is non-empty.
NeverEmptied ==
    (pc # "panicked" /\ Len(before) >= 1) => Len(input) >= 1

\* ByteDelete has taken a buffer of seven bytes or more down to one byte
NeverEmptiedWitness ==
    /\ round = 1
    /\ last_mutation = <<"ByteDelete">>
    /\ Len(before) >= 7
    /\ Len(input) = 1

\* byte j (from 0) of a word in little-endian order, the native order of
\* the hardware the engine targets
LittleEndianByte(w, j) ==
    (IF 8 * j \in w THEN 1 ELSE 0) + (IF 8 * j + 1 \in w THEN 2 ELSE 0)
    + (IF 8 * j + 2 \in w THEN 4 ELSE 0) + (IF 8 * j + 3 \in w THEN 8 ELSE 0)
    + (IF 8 * j + 4 \in w THEN 16 ELSE 0)
    + (IF 8 * j + 5 \in w THEN 32 ELSE 0)
    + (IF 8 * j + 6 \in w THEN 64 ELSE 0)
    + (IF 8 * j + 7 \in w THEN 128 ELSE 0)

\* the 15 ranges of spec.md section 4.5 as <<first byte, length>>: the 8
\* bytes, the two halves, the four quarters, the eight single bytes
SelectedRange(n) ==
    IF n = 0 THEN <<0, 8>>
    ELSE IF n <= 2 THEN <<4 * (n - 1), 4>>
    ELSE IF n <= 6 THEN <<2 * (n - 3), 2>>
    ELSE <<n - 7, 1>>

\* the bytes of the range of the little-endian bytes of value
RangeOf(value, range) ==
    [i \in 1..range[2] |-> LittleEndianByte(value, range[1] + i - 1)]

\* what C9 says mutate_magic returns, where v is the transformed value and
\* the PRNG state the transform left, from which the slice draw is made
SpecifiedOutput(v) ==
    RangeOf(v.magic, SelectedRange(Rem(rand(v.rng).val, 15)))

\* C9: mutate_magic, whenever it returns, returns 1, 2, 4 or 8 bytes (never
\* none, never 6), and they are the range the slice draw selects of the
\* little-endian bytes of the transformed value: for each value of the
\* catalogue, and arbitrary values besides, under every pair of a transform
\* draw and a slice draw.
MagicTransformerOutput ==
    [][(last_call'.name = "mutate_magic" /\ pc' # "panicked") =>
        /\ Len(last_call'.returned) \in {1, 2, 4, 8}
        /\ last_call'.returned =
               SpecifiedOutput(mutate_magic_value(rng, last_call'.magic))]_vars

\* mutate_magic has returned 2 bytes of 0x7fffffff (i32::MAX) transformed,
\* and they are not a quarter of the value itself
MagicTransformerOutputWitness ==
    /\ last_call.name = "mutate_magic"
    /\ pc = "idle"
    /\ calls >= 1
    /\ last_call.magic = 0..30
    /\ Len(last_call.returned) = 2
    /\ last_call.returned \notin {<<255, 255>>, <<255, 127>>}

\* C10: when Splice takes neither a no-op exit nor fails, the buffer it
\* leaves is the old block input[old_start .. old_start + old_len]
\* followed by the new block corpus_input[new_start .. new_start + new_len]
\* and 1 <= old_len + new_len <= max_size.
SpliceShape ==
    [][(last_mutation' = Append(last_mutation, "Splice")
        /\ splice_draws(Working(Self), corpus).exit = "copy") =>
       LET d == splice_draws(Working(Self), corpus)
           old_block == SubSeq(input, d.old_block_start + 1,
                               d.old_block_start + d.old_block_len)
           new_block == SubSeq(corpus[d.new_idx + 1], d.new_block_start + 1,
                               d.new_block_start + d.new_block_len)
       IN  /\ input' = old_block \o new_block
           /\ 1 <= d.old_block_len + d.new_block_len
           /\ d.old_block_len + d.new_block_len <= max_size]_vars

\* the draws of the Splice that produced the state, a forced first round
SpliceDrawn ==
    splice_draws([rng |-> twin.rng, input |-> before, max_size |-> max_size,
                  last_mutation |-> <<>>, panic |-> FALSE], corpus)

\* Splice has copied: the old block did not start at the front and overlaps
\* it, and the result is shorter than the buffer was
SpliceShapeWitness ==
    /\ round = 1
    /\ last_mutation = <<"Splice">>
    /\ SpliceDrawn.exit = "copy"
    /\ SpliceDrawn.old_block_start > 0
    /\ SpliceDrawn.old_block_start < SpliceDrawn.old_block_len
    /\ Len(input) < Len(before)

-----------------------------------------------------------------------------
(* Determinism, checked under SpecTwin *)

-----------------------------------------------------------------------------
(* The scenario "Pure BitFlip" of spec.md section 8, checked under Spec *)

\* the corpus of the scenario
ZeroCorpus == << <<0, 0, 0, 0, 0, 0, 0, 0>> >>

\* the number of one bits of a byte and of a buffer
OnesOfByte(b) ==
    (b % 2) + ((b \div 2) % 2) + ((b \div 4) % 2) + ((b \div 8) % 2)
    + ((b \div 16) % 2) + ((b \div 32) % 2) + ((b \div 64) % 2)
    + ((b \div 128) % 2)

RECURSIVE OnesFrom(_, _)
OnesFrom(buf, i) ==
    IF i > Len(buf) THEN 0 ELSE OnesOfByte(buf[i]) + OnesFrom(buf, i + 1)

Ones(buf) == OnesFrom(buf, 1)

\* the number of flips bit_flip draws on a buffer of 8 bytes when the round
\* starts in PRNG state s
FlipsDrawn(s) ==
    Rem(rand(round_draws(s).rng).val, MAX_BIT_CORRUPTION) + 1

\* a call in the scenario: corpus path over ZeroCorpus with max_size = 8,
\* one round, and that round was BitFlip
PureBitFlip ==
    /\ last_call.name = "mutate_input"
    /\ corpus = ZeroCorpus
    /\ max_size = 8
    /\ rounds = 1
    /\ last_mutation = <<"BitFlip">>

\* C11 as spec.md states it: in the scenario the returned buffer has 8
\* bytes, exactly one of them is not zero and that byte has exactly one bit
\* set.  bit_flip toggles 1 to 64 bits, so the statement fails.
PureBitFlipOneBit ==
    (pc = "return_mutated" /\ PureBitFlip) =>
        /\ Len(input) = 8
        /\ Cardinality({i \in 1..Len(input) : input[i] # 0}) = 1
        /\ Ones(input) = 1

\* C11 amended: in the scenario the returned buffer has 8 bytes and
\* last_mutation is [BitFlip]; the round toggles k bits, 1 <= k <= 64 drawn
\* by bit_flip, so the number of one bits it leaves is at most k and of the
\* parity of k (exactly one bit in one byte when k = 1, none or several
\* otherwise).
PureBitFlipToggles ==
    /\ []((pc = "return_mutated" /\ PureBitFlip) =>
            Len(input) = 8 /\ Ones(input) <= MAX_BIT_CORRUPTION)
    /\ [][(pc = "rounds" /\ pc' = "rounds" /\ round = 0 /\ PureBitFlip') =>
            /\ input = ZeroCorpus[1]
            /\ Len(input') = 8
            /\ FlipsDrawn(rng) \in 1..MAX_BIT_CORRUPTION
            /\ Ones(input') <= FlipsDrawn(rng)
            /\ (FlipsDrawn(rng) - Ones(input')) % 2 = 0]_vars

\* a call of the scenario has returned a buffer with more than one byte
\* that is not zero
PureBitFlipTogglesWitness ==
    /\ pc = "return_mutated"
    /\ PureBitFlip
    /\ Cardinality({i \in 1..Len(input) : input[i] # 0}) > 1

-----------------------------------------------------------------------------
(* MagicByteOverwrite, checked under SpecOverwrite *)

\* C12: MagicByteOverwrite never changes the length of the buffer and
\* never writes outside it: a buffer of fewer than 8 bytes is left byte for
\* byte as it was, and on 8 bytes or more no write fails on its index (a
\* call fails only where overflow checks stop the magic arithmetic, and
\* the draws do not depend on the build profile).
OverwriteInBounds ==
    [][last_call'.name = "magic_byte_overwrite" =>
        /\ Len(input') = Len(input)
        /\ Len(input) < 8 => (input' = input /\ pc' = "returned")
        /\ pc' = "panicked" => overflow_checks]_vars

\* the operator has written into a buffer of 16 bytes up to its last byte,
\* from a start index other than 0
OverwriteInBoundsWitness ==
    /\ last_call.name = "magic_byte_overwrite"
    /\ pc = "returned"
    /\ Len(before) = 16
    /\ Len(input) = 16
    /\ input[1] = before[1]
    /\ input[16] # before[16]

-----------------------------------------------------------------------------
(* mutate_input over well-formed corpora: max_size >= 1 and every entry of *)
(* 1 to max_size bytes                                                     *)

WellFormed(c, size) == \A i \in 1..Len(c) : 1 <= Len(c[i]) /\ Len(c[i]) <= size

\* the seeds passed to new: the small ones, and one whose first call over
\* ZeroCorpus dispatches MagicByteOverwrite, which draws the catalogue
\* entry 0 and the transform magic - 1
ContractSeeds == (0..MaxSeed) \cup {503335}

InitContract ==
    \E n \in ContractSeeds, size \in Sizes :
        /\ rng = new({FromNat(n)}, size, Zero).rng
        /\ input = new({FromNat(n)}, size, Zero).input
        /\ max_size = size
        /\ last_mutation = new({FromNat(n)}, size, Zero).last_mutation
        /\ corpus = <<>>
        /\ pc = "idle"
        /\ rounds = 0
        /\ round = 0
        /\ overflow_checks \in BOOLEAN
        /\ calls = 0
        /\ last_call = [name |-> "new", slice |-> <<>>, gen |-> 0]
        /\ before = <<>>
        /\ twin = Constructed(new({FromNat(n)}, size, Zero))

MutateWellFormed ==
    \E c \in Corpora : WellFormed(c, max_size) /\ MutateBegin(c)

NextContract ==
    \/ MutateWellFormed
    \/ MutateRound
    \/ MutateReturn

SpecContract == InitContract /\ [][NextContract]_vars

\* C13 as spec.md states it: over a well-formed corpus no mutate_input call
\* fails at run time.  With overflow checks on, magic - 1 on the catalogue
\* entry 0 stops the call inside MagicByteOverwrite.
NoRuntimeFailure == pc # "panicked"

\* C14 as spec.md states it: the Magic Transformer's arithmetic wraps and is
\* never an error, so every mutate_magic call on a 64-bit value returns its
\* bytes.  With overflow checks on, m - 1 on 0 and m + 1 on 2^64 - 1 stop
\* the call instead of yielding 2^64 - 1 and 0.
MagicArithmeticWraps ==
    last_call.name = "mutate_magic" =>
        /\ pc # "panicked"
        /\ Len(last_call.returned) \in {1, 2, 4, 8}

-----------------------------------------------------------------------------
(* The scheduler's choice of operator, checked under Spec *)

\* the two draws a round makes before it dispatches, from the PRNG state s
LongshotDraw(s) == Rem(rand(s).val, 100)
IndexDraw(s) == rand(rand(s).rng).val

\* the operators of the longshot pool
Longshots == {"MagicByteInsert", "MagicByteOverwrite", "Splice"}

\* what a round leaves of the frame f, read off the variables
Outcome(f) == <<f.rng, f.input, f.last_mutation, f.pc, f.round>>

\* C15: every round that returns appends the tag of the catalogue entry at
\* index (second draw) % |pool|, where the pool is the 12 operators when
\* the round's longshot draw, (first draw) % 100, is <= 5 and the first 9
\* otherwise; a round whose longshot draw is greater than 5 dispatches none
\* of MagicByteInsert, MagicByteOverwrite and Splice and does not read the
\* corpus: it leaves what it would leave over an empty corpus.
DispatchFromPool ==
    [][(pc = "rounds" /\ round < rounds /\ last_call'.name = "mutate_input"
        /\ calls' = calls) =>
        LET longshot == LongshotDraw(rng)
            tag == last_mutation'[Len(last_mutation')]
        IN  /\ pc' # "panicked" =>
                 /\ Len(last_mutation') = Len(last_mutation) + 1
                 /\ longshot <= 5 =>
                        tag = MUTATIONS[Rem(IndexDraw(rng), 12) + 1]
                 /\ longshot > 5 =>
                        /\ tag = MUTATIONS[Rem(IndexDraw(rng), 9) + 1]
                        /\ tag \notin Longshots
            /\ longshot > 5 =>
                 <<rng', input', last_mutation', pc', round'>> =
                     Outcome(mutate_input_round(Self, <<>>))]_vars

\* the first round of a first call over a corpus of two entries has run,
\* its longshot draw was greater than 5 and it changed the buffer
DispatchFromPoolWitness ==
    /\ pc = "rounds"
    /\ calls = 1
    /\ round = 1
    /\ Len(corpus) = 2
    /\ last_mutation[1] \notin Longshots
    /\ input # before
    /\ \E n \in 0..MaxSeed :
          LET f == mutate_input_begin(
                       Constructed(new({FromNat(n)}, max_size, Zero)),
                       corpus)
          IN  /\ f.pc = "rounds"
              /\ LongshotDraw(f.rng) > 5
              /\ Outcome(mutate_input_round(f, corpus)) =
                     <<rng, input, last_mutation, pc, round>>

-----------------------------------------------------------------------------
(* Termination of mutate_input over well-formed corpora.  A call in        *)
(* progress waits on nothing: its thread runs the next round, or the exit  *)
(* after the last one, and either step changes pc or round.                *)

\* a step of the rounds loop (lines 649-715) or of the exit (lines 717-720)
Running ==
    /\ pc = "rounds"
    /\ pc' \in {"rounds", "return_mutated", "panicked"}
    /\ round' \in {round, round + 1}

SpecContractFair == SpecContract /\ WF_<<pc, round>>(Running)

\* C16 as spec.md states it: every mutate_input call over a well-formed
\* corpus runs at most MAX_STACK rounds and eventually returns.  With
\* overflow checks on, a round that dispatches a magic operator on the
\* catalogue entry 0 with the transform magic - 1 stops the call, which
\* never returns.
EveryCallReturns ==
    /\ [](pc = "rounds" => rounds <= MAX_STACK)
    /\ (pc = "rounds") ~> (pc = "return_mutated")

=============================================================================
